---- MODULE Spec2Model ----
(***************************************************************************)
(* Type erasure (Klaus Iglberger's design): class Shape owns, through a    *)
(* std::unique_ptr<ShapeConcept> pimpl_, one heap-allocated holder that is *)
(* either a ShapeModel<T> (a concrete value) or an ExtendedModel<ShapeT,   *)
(* DrawStrategy> (a concrete value plus a draw override).                  *)
(*                                                                         *)
(* State: the Shape objects of the program (alive, pimpl_), the free store *)
(* of holders (heap), what the last step wrote to the output stream (out), *)
(* and whether the process was terminated by a null/dangling dereference   *)
(* (crashed).  History variables (last, origin, movedFrom, badFree) record *)
(* what happened; no action's guard reads them.                            *)
(*                                                                         *)
(* Doubles are modelled in tenths: 2.0 is 20, 1.5 is 15, 4.2 is 42.        *)
(***************************************************************************)
EXTENDS Integers, Sequences, FiniteSets

VARIABLES
    alive,      \* alive[s]: the Shape object s is within its lifetime
    pimpl_,     \* pimpl_[s]: the holder s owns, or NULL
    heap,       \* heap[h]: the holder allocated at h, or Free
    out,        \* the tokens the last step wrote to the output stream
    crashed,    \* the process was killed dereferencing a null or dangling pimpl_
    last,       \* history: the operation the last step performed, and whether on one object
    origin,     \* history: the holder that the constructor at the start of s's lineage installed
    movedFrom,  \* history: s was the source of a move and has not been reassigned since
    badFree,    \* history: a holder was deleted that was not allocated (double release)
    pc,         \* driver: the statement main() is at, and its loop index
    shapes,     \* driver: the std::vector<Shape>: its storage, size and storage being grown into
    console,    \* driver: everything written to std::cout so far
    prog,       \* build: the wrap expressions of the translation unit
    site,       \* build: the wrap expression being compiled
    stage,      \* build: the stage of the build
    diag        \* build: the diagnostic that stopped the build, or "none"

shapeVars == <<alive, pimpl_, heap, out, crashed, last, origin, movedFrom, badFree>>
mainVars == <<pc, shapes, console>>
buildVars == <<prog, site, stage, diag>>
vars == <<alive, pimpl_, heap, out, crashed, last, origin, movedFrom, badFree,
          pc, shapes, console, prog, site, stage, diag>>

(***************************************************************************)
(* Bounds.                                                                 *)
(***************************************************************************)
NumShapes == 3
MaxHolders == 4

Slots == 1..NumShapes
HolderIds == 1..MaxHolders
NULL == 0

(***************************************************************************)
(* Concrete shape types (circle.h, square.h): one double attribute each.   *)
(***************************************************************************)
Circle(radius) == [kind |-> "Circle", attr |-> radius]
Square(width) == [kind |-> "Square", attr |-> width]

\* The values main() wraps: Circle{2.0} and Square{1.5} through the
\* single-argument constructor, Circle{4.2} together with a DrawStrategy.
Values == {Circle(20), Square(15)}
ExtValues == {Circle(42)}

\* A call of a free function declared for the concrete type; its body is
\* not part of shape.h, so the call itself is the observable effect.
draw_free(v) == <<[op |-> "draw", kind |-> v.kind, attr |-> v.attr]>>
serialize_free(v) == <<[op |-> "serialize", kind |-> v.kind, attr |-> v.attr]>>
stream_free(v) == <<[op |-> "operator<<", kind |-> v.kind, attr |-> v.attr]>>

Text(s) == <<[op |-> s, kind |-> "", attr |-> 0]>>

\* The lambda main() injects as the DrawStrategy of its third element.
lambda(circle) ==
    Text("Drawing a Circle: with dependecy injected lambda function.")
        \o stream_free(circle) \o Text("endl")

DrawStrategies == {"lambda"}
ApplyDrawer(f, v) == lambda(v)
\* The lambda's parameter is Circle const&: it is callable on a Circle only.
Callable(f, v) == v.kind = "Circle"

(***************************************************************************)
(* The holders: ShapeConcept's two implementations.                        *)
(***************************************************************************)
Free == [model |-> "free"]
ShapeModel(value) == [model |-> "ShapeModel", object_ |-> value]
ExtendedModel(shape, drawer) ==
    [model |-> "ExtendedModel", shape_ |-> shape, drawer_ |-> drawer]

Holders == {ShapeModel(v) : v \in Values}
           \cup {ExtendedModel(v, f) : v \in ExtValues, f \in DrawStrategies}

\* Faulty variant: ShapeModel::draw routed to the wrong free function.
ShapeModel_draw_misrouted(m) == serialize_free(m.object_)
\* Faulty variant: ExtendedModel::draw ignoring drawer_ (the default draw).
ExtendedModel_draw_default(m) == draw_free(m.shape_)
\* Faulty variant: ExtendedModel::clone slicing to a plain model (override lost).
ExtendedModel_clone_sliced(m) == ShapeModel(m.shape_)

ShapeModel_serialize(m) == serialize_free(m.object_)
ShapeModel_draw(m) == draw_free(m.object_)
ShapeModel_print(m) == stream_free(m.object_)
ShapeModel_clone(m) == ShapeModel(m.object_)

ExtendedModel_serialize(m) == serialize_free(m.shape_)
ExtendedModel_draw(m) == ApplyDrawer(m.drawer_, m.shape_)
ExtendedModel_print(m) == stream_free(m.shape_)
ExtendedModel_clone(m) == ExtendedModel(m.shape_, m.drawer_)

\* Virtual dispatch on the holder's dynamic type.
serialize(m) ==
    IF m.model = "ShapeModel" THEN ShapeModel_serialize(m) ELSE ExtendedModel_serialize(m)
draw(m) ==
    IF m.model = "ShapeModel" THEN ShapeModel_draw(m) ELSE ExtendedModel_draw(m)
print(m) ==
    IF m.model = "ShapeModel" THEN ShapeModel_print(m) ELSE ExtendedModel_print(m)
clone(m) ==
    IF m.model = "ShapeModel" THEN ShapeModel_clone(m) ELSE ExtendedModel_clone(m)

(***************************************************************************)
(* The free store and std::unique_ptr.                                     *)
(***************************************************************************)
FreeIds == {h \in DOMAIN heap : heap[h] = Free}
\* p can be dereferenced: it is not null and its holder has not been deleted.
Valid(p) == p # NULL /\ heap[p] # Free
\* Faulty variant: a raw owning pointer that is never deleted.
Delete_never(hp, p) == hp
\* delete p (a no-op on the null pointer).
Delete(hp, p) == IF p = NULL THEN hp ELSE [hp EXCEPT ![p] = Free]
BadDelete(hp, p) == p # NULL /\ hp[p] = Free

Op(name, d, s) == [op |-> name, self |-> (d = s)]

(***************************************************************************)
(* The capability check.  A type is described by what its author supplies: *)
(* an own free serialize, an own free draw, and operator<< on ostream.     *)
(***************************************************************************)
Types == [ownSerialize : BOOLEAN, ownDraw : BOOLEAN, streamOut : BOOLEAN]

\* circle.h and square.h declare all three for their type.
CapsOf(kind) == [ownSerialize |-> TRUE, ownDraw |-> TRUE, streamOut |-> TRUE]

\* shape.h declares the unconstrained primary templates
\*   template <typename T> void serialize(const T&);
\*   template <typename T> void draw(const T&);
\* before IsShape and before the models; neither is defined anywhere.
PrimaryTemplateDeclared == TRUE

\* Overload resolution of the unqualified call serialize(t) / draw(t): the
\* type's own overload is preferred, the primary template is viable for any T.
Resolve(own) ==
    IF own THEN "own" ELSE IF PrimaryTemplateDeclared THEN "primary" ELSE "none"

IsShape(T) ==
    /\ Resolve(T.ownSerialize) # "none"
    /\ Resolve(T.ownDraw) # "none"
    /\ T.streamOut

(***************************************************************************)
(* Shape's operations.  Each leaves mainVars and buildVars to its caller.  *)
(***************************************************************************)
\* A virtual call through a null (or deleted) pimpl_: the process is killed.
Crash(name, d, s) ==
    /\ crashed' = TRUE
    /\ last' = Op(name, d, s)
    /\ out' = <<>>
    /\ UNCHANGED <<alive, pimpl_, heap, origin, movedFrom, badFree>>

\* template <IsShape T> Shape(const T& x) : pimpl_{ std::make_unique<ShapeModel<T>>(x) }
Construct(d, x) ==
    /\ ~crashed /\ ~alive[d]
    /\ IsShape(CapsOf(x.kind))
    /\ \E h \in FreeIds :
          /\ heap' = [heap EXCEPT ![h] = ShapeModel(x)]
          /\ pimpl_' = [pimpl_ EXCEPT ![d] = h]
    /\ alive' = [alive EXCEPT ![d] = TRUE]
    /\ last' = Op("Construct", d, 0)
    /\ origin' = [origin EXCEPT ![d] = ShapeModel(x)]
    /\ movedFrom' = [movedFrom EXCEPT ![d] = FALSE]
    /\ out' = <<>>
    /\ UNCHANGED <<crashed, badFree>>

\* template <typename ShapeT, typename DrawStrategy> Shape(ShapeT shape, DrawStrategy drawer)
\*   : pimpl_{ std::make_unique<ExtendedModel<ShapeT,DrawStrategy>>(std::move(shape), std::move(drawer)) }
ConstructExt(d, shape, drawer) ==
    /\ ~crashed /\ ~alive[d]
    /\ Callable(drawer, shape) /\ CapsOf(shape.kind).streamOut
    /\ \E h \in FreeIds :
          /\ heap' = [heap EXCEPT ![h] = ExtendedModel(shape, drawer)]
          /\ pimpl_' = [pimpl_ EXCEPT ![d] = h]
    /\ alive' = [alive EXCEPT ![d] = TRUE]
    /\ last' = Op("ConstructExt", d, 0)
    /\ origin' = [origin EXCEPT ![d] = ExtendedModel(shape, drawer)]
    /\ movedFrom' = [movedFrom EXCEPT ![d] = FALSE]
    /\ out' = <<>>
    /\ UNCHANGED <<crashed, badFree>>

\* Faulty variant: a copy constructor that copies the pointer, not the holder.
CopyConstruct_shallow(d, s) ==
    /\ ~crashed /\ ~alive[d] /\ alive[s]
    /\ pimpl_' = [pimpl_ EXCEPT ![d] = pimpl_[s]]
    /\ alive' = [alive EXCEPT ![d] = TRUE]
    /\ last' = Op("CopyConstruct", d, s)
    /\ origin' = [origin EXCEPT ![d] = origin[s]]
    /\ movedFrom' = [movedFrom EXCEPT ![d] = FALSE]
    /\ out' = <<>>
    /\ UNCHANGED <<heap, crashed, badFree>>

\* Shape(const Shape& s) : pimpl_{ s.pimpl_->clone() }
CopyConstruct(d, s) ==
    /\ ~crashed /\ ~alive[d] /\ alive[s]
    /\ IF Valid(pimpl_[s])
       THEN /\ \E h \in FreeIds :
                  /\ heap' = [heap EXCEPT ![h] = clone(heap[pimpl_[s]])]
                  /\ pimpl_' = [pimpl_ EXCEPT ![d] = h]
            /\ alive' = [alive EXCEPT ![d] = TRUE]
            /\ last' = Op("CopyConstruct", d, s)
            /\ origin' = [origin EXCEPT ![d] = origin[s]]
            /\ movedFrom' = [movedFrom EXCEPT ![d] = FALSE]
            /\ out' = <<>>
            /\ UNCHANGED <<crashed, badFree>>
       ELSE Crash("CopyConstruct", d, s)

\* Faulty variant: a move constructor that leaves the source its pointer.
MoveConstruct_leavesSource(d, s) ==
    /\ ~crashed /\ ~alive[d] /\ alive[s]
    /\ pimpl_' = [pimpl_ EXCEPT ![d] = pimpl_[s]]
    /\ alive' = [alive EXCEPT ![d] = TRUE]
    /\ last' = Op("MoveConstruct", d, s)
    /\ origin' = [origin EXCEPT ![d] = origin[s]]
    /\ movedFrom' = [movedFrom EXCEPT ![d] = FALSE, ![s] = TRUE]
    /\ out' = <<>>
    /\ UNCHANGED <<heap, crashed, badFree>>

\* Shape(Shape&& s) : pimpl_{ std::move(s.pimpl_) }
MoveConstruct(d, s) ==
    /\ ~crashed /\ ~alive[d] /\ alive[s]
    /\ pimpl_' = [pimpl_ EXCEPT ![d] = pimpl_[s], ![s] = NULL]
    /\ alive' = [alive EXCEPT ![d] = TRUE]
    /\ last' = Op("MoveConstruct", d, s)
    /\ origin' = [origin EXCEPT ![d] = origin[s], ![s] = Free]
    /\ movedFrom' = [movedFrom EXCEPT ![d] = FALSE, ![s] = TRUE]
    /\ out' = <<>>
    /\ UNCHANGED <<heap, crashed, badFree>>

\* Faulty variant: a copy assignment that takes the source's pointer.
CopyAssign_shallow(d, s) ==
    /\ ~crashed /\ alive[d] /\ alive[s]
    /\ pimpl_' = [pimpl_ EXCEPT ![d] = pimpl_[s]]
    /\ heap' = IF d = s THEN heap ELSE Delete(heap, pimpl_[d])
    /\ badFree' = (badFree \/ (d # s /\ BadDelete(heap, pimpl_[d])))
    /\ last' = Op("CopyAssign", d, s)
    /\ origin' = [origin EXCEPT ![d] = origin[s]]
    /\ movedFrom' = [movedFrom EXCEPT ![d] = FALSE]
    /\ out' = <<>>
    /\ UNCHANGED <<alive, crashed>>

\* Shape& operator=(const Shape& s) { pimpl_ = s.pimpl_->clone(); return *this; }
\* The clone is made first; unique_ptr's assignment then deletes the old holder.
CopyAssign(d, s) ==
    /\ ~crashed /\ alive[d] /\ alive[s]
    /\ IF Valid(pimpl_[s])
       THEN /\ \E h \in FreeIds :
                  /\ heap' = Delete([heap EXCEPT ![h] = clone(heap[pimpl_[s]])],
                                    pimpl_[d])
                  /\ pimpl_' = [pimpl_ EXCEPT ![d] = h]
            /\ badFree' = (badFree \/ BadDelete(heap, pimpl_[d]))
            /\ last' = Op("CopyAssign", d, s)
            /\ origin' = [origin EXCEPT ![d] = origin[s]]
            /\ movedFrom' = [movedFrom EXCEPT ![d] = FALSE]
            /\ out' = <<>>
            /\ UNCHANGED <<alive, crashed>>
       ELSE Crash("CopyAssign", d, s)

\* Faulty variant: a move assignment that deletes its own holder before it
\* takes the source's pointer (delete pimpl_; pimpl_ = s.pimpl_; s.pimpl_ = 0).
MoveAssign_resetFirst(d, s) ==
    /\ ~crashed /\ alive[d] /\ alive[s]
    /\ heap' = Delete(heap, pimpl_[d])
    /\ badFree' = (badFree \/ BadDelete(heap, pimpl_[d]))
    /\ pimpl_' = [[pimpl_ EXCEPT ![d] = pimpl_[s]] EXCEPT ![s] = NULL]
    /\ last' = Op("MoveAssign", d, s)
    /\ origin' = [[origin EXCEPT ![s] = Free] EXCEPT ![d] = origin[s]]
    /\ movedFrom' = [[movedFrom EXCEPT ![s] = TRUE] EXCEPT ![d] = FALSE]
    /\ out' = <<>>
    /\ UNCHANGED <<alive, crashed>>

\* Shape& operator=(Shape&& s) { pimpl_ = std::move(s.pimpl_); return *this; }
\* unique_ptr's move assignment is reset(u.release()): the source is emptied
\* first, then the destination takes the pointer and deletes the one it held.
MoveAssign(d, s) ==
    LET p == pimpl_[s]
        released == [pimpl_ EXCEPT ![s] = NULL]
        old == released[d]
    IN  /\ ~crashed /\ alive[d] /\ alive[s]
        /\ pimpl_' = [released EXCEPT ![d] = p]
        /\ heap' = Delete(heap, old)
        /\ badFree' = (badFree \/ BadDelete(heap, old))
        /\ last' = Op("MoveAssign", d, s)
        /\ origin' = [[origin EXCEPT ![s] = Free] EXCEPT ![d] = origin[s]]
        /\ movedFrom' = [[movedFrom EXCEPT ![s] = TRUE] EXCEPT ![d] = FALSE]
        /\ out' = <<>>
        /\ UNCHANGED <<alive, crashed>>

\* ~Shape(): implicit; destroys pimpl_, which deletes the holder it owns.
Destroy(s) ==
    /\ ~crashed /\ alive[s]
    /\ heap' = Delete(heap, pimpl_[s])
    /\ badFree' = (badFree \/ BadDelete(heap, pimpl_[s]))
    /\ pimpl_' = [pimpl_ EXCEPT ![s] = NULL]
    /\ alive' = [alive EXCEPT ![s] = FALSE]
    /\ last' = Op("Destroy", s, 0)
    /\ origin' = [origin EXCEPT ![s] = Free]
    /\ movedFrom' = [movedFrom EXCEPT ![s] = FALSE]
    /\ out' = <<>>
    /\ UNCHANGED crashed

\* An operation that reads through pimpl_ and writes w to the stream.
Observe(name, s, w) ==
    /\ out' = w
    /\ last' = Op(name, s, s)
    /\ UNCHANGED <<alive, pimpl_, heap, crashed, origin, movedFrom, badFree>>

\* template <> void draw(const Shape& shape) { shape.pimpl_->draw(); }
draw_Shape(s) ==
    /\ ~crashed /\ alive[s]
    /\ IF Valid(pimpl_[s])
       THEN Observe("draw", s, draw(heap[pimpl_[s]]))
       ELSE Crash("draw", s, s)

\* template <> void serialize(const Shape& shape) { shape.pimpl_->serialize(); }
serialize_Shape(s) ==
    /\ ~crashed /\ alive[s]
    /\ IF Valid(pimpl_[s])
       THEN Observe("serialize", s, serialize(heap[pimpl_[s]]))
       ELSE Crash("serialize", s, s)

\* operator<<(std::ostream& os, const Shape& shape) { return os << *shape.pimpl_; }
stream_Shape(s) ==
    /\ ~crashed /\ alive[s]
    /\ IF Valid(pimpl_[s])
       THEN Observe("operator<<", s, print(heap[pimpl_[s]]))
       ELSE Crash("operator<<", s, s)

(***************************************************************************)
(* Specification Spec: any program over NumShapes Shape objects.           *)
(***************************************************************************)
ShapeInit(slots, ids) ==
    /\ alive = [s \in slots |-> FALSE]
    /\ pimpl_ = [s \in slots |-> NULL]
    /\ heap = [h \in ids |-> Free]
    /\ out = <<>>
    /\ crashed = FALSE
    /\ last = Op("none", 0, 0)
    /\ origin = [s \in slots |-> Free]
    /\ movedFrom = [s \in slots |-> FALSE]
    /\ badFree = FALSE

EmptyVector == [buf |-> <<>>, size |-> 0, newbuf |-> <<>>]
MainIdle == pc = [at |-> "idle", i |-> 0] /\ shapes = EmptyVector /\ console = <<>>
BuildIdle == prog = <<>> /\ site = 0 /\ stage = "idle" /\ diag = "none"

Init == ShapeInit(Slots, HolderIds) /\ MainIdle /\ BuildIdle

Others == UNCHANGED <<mainVars, buildVars>>

Next ==
    \/ \E d \in Slots, x \in Values : Construct(d, x) /\ Others
    \/ \E d \in Slots, x \in ExtValues, f \in DrawStrategies :
          ConstructExt(d, x, f) /\ Others
    \/ \E d, s \in Slots : CopyConstruct(d, s) /\ Others
    \/ \E d, s \in Slots : MoveConstruct(d, s) /\ Others
    \/ \E d, s \in Slots : CopyAssign(d, s) /\ Others
    \/ \E d, s \in Slots : MoveAssign(d, s) /\ Others
    \/ \E s \in Slots : Destroy(s) /\ Others
    \/ \E s \in Slots : draw_Shape(s) /\ Others
    \/ \E s \in Slots : serialize_Shape(s) /\ Others
    \/ \E s \in Slots : stream_Shape(s) /\ Others

Spec == Init /\ [][Next]_vars

(***************************************************************************)
(* Properties of Spec.                                                     *)
(***************************************************************************)
\* s is alive and owns a holder that can be dereferenced.
Holds(s) == alive[s] /\ Valid(pimpl_[s])
\* What draw, serialize and stream output of s write.
Obs(s) ==
    [draw |-> draw(heap[pimpl_[s]]),
     serialize |-> serialize(heap[pimpl_[s]]),
     stream |-> print(heap[pimpl_[s]])]
Owners(h) == {s \in DOMAIN alive : alive[s] /\ pimpl_[s] = h}
Allocated == {h \in DOMAIN heap : heap[h] # Free}
AliveSlots == {s \in DOMAIN alive : alive[s]}

\* C1: a Shape whose lineage starts at the single-argument constructor with
\* value v writes, on draw, serialize and stream output, exactly what the
\* free draw(v), serialize(v) and operator<<(os, v) write.
C1_WrapIsTransparent ==
    [][\A s \in Slots :
          (Holds(s) /\ origin[s].model = "ShapeModel") =>
             /\ draw_Shape(s) => out' = draw_free(origin[s].object_)
             /\ serialize_Shape(s) => out' = serialize_free(origin[s].object_)
             /\ stream_Shape(s) => out' = stream_free(origin[s].object_)]_vars

\* A Shape built from Circle{2.0} has just been drawn.
C1_Witness ==
    /\ last.op = "draw" /\ ~crashed
    /\ out = draw_free(Circle(20))
    /\ \E s \in Slots : Holds(s) /\ origin[s] = ShapeModel(Circle(20))

\* An operation on a that is not an operation on b: a is destroyed, assigned
\* to (from any Shape, but not by moving b into it), copied from, or moved
\* away into a Shape other than b.
OperationOnOther(a, b) ==
    \/ Destroy(a)
    \/ \E c \in Slots : CopyAssign(a, c)
    \/ \E c \in Slots \ {b} : MoveAssign(a, c)
    \/ \E c \in Slots \ {b} : MoveConstruct(c, a) \/ MoveAssign(c, a)
    \/ \E c \in Slots \ {b} : CopyConstruct(c, a) \/ CopyAssign(c, a)

\* C2: no operation on a Shape a changes what another Shape b holds or
\* writes; in particular a copy b of a keeps the output it had right after
\* the copy through every later operation on a.
C2_CopyIsIndependent ==
    [][\A a, b \in Slots :
          (a # b /\ Holds(b)) =>
             \/ Holds(b)' /\ Obs(b)' = Obs(b)
             \/ ~OperationOnOther(a, b)]_vars

\* b has just been copy-constructed from a (the only other live Shape): it
\* owns a holder of its own with a's content.
C2_Witness ==
    /\ last.op = "CopyConstruct" /\ ~crashed
    /\ \E a, b \in Slots :
          /\ a # b /\ AliveSlots = {a, b}
          /\ Holds(a) /\ Holds(b)
          /\ pimpl_[a] # pimpl_[b]
          /\ Obs(a) = Obs(b)

\* C3: a Shape whose lineage starts at Shape(v, f) writes f(v) on draw and
\* not the default draw(v), while serialize and stream output write what the
\* free serialize(v) and operator<<(os, v) write.
C3_OverrideReplacesDrawOnly ==
    [][\A s \in Slots :
          (Holds(s) /\ origin[s].model = "ExtendedModel") =>
             /\ draw_Shape(s) =>
                   /\ out' = ApplyDrawer(origin[s].drawer_, origin[s].shape_)
                   /\ out' # draw_free(origin[s].shape_)
             /\ serialize_Shape(s) => out' = serialize_free(origin[s].shape_)
             /\ stream_Shape(s) => out' = stream_free(origin[s].shape_)]_vars

\* A Shape built from Circle{4.2} and the lambda has just been drawn.
C3_Witness ==
    /\ last.op = "draw" /\ ~crashed
    /\ out = lambda(Circle(42))
    /\ \E s \in Slots : Holds(s) /\ origin[s] = ExtendedModel(Circle(42), "lambda")

\* What a move from s into d must achieve: d owns the very holder s owned,
\* unchanged, no holder was allocated, and s is alive and empty.
Transferred(d, s) ==
    /\ pimpl_'[d] = pimpl_[s]
    /\ heap'[pimpl_'[d]] = heap[pimpl_[s]]
    /\ Holds(d)' /\ Obs(d)' = Obs(s)
    /\ Allocated' \subseteq Allocated
    /\ alive'[s] /\ pimpl_'[s] = NULL

\* C4 as stated: every move construction or move assignment from a source
\* that holds a holder transfers it and leaves the source empty.
C4_AsStated ==
    [][\A d, s \in Slots :
          (Holds(s) /\ (MoveConstruct(d, s) \/ MoveAssign(d, s))) =>
             Transferred(d, s)]_vars

\* C4 (amended): move construction, and move assignment into a different
\* object, from a source that holds a holder transfer that very holder (no
\* clone): the destination writes what the source would have written, and
\* the source is empty.
C4_MoveTransfersHolder ==
    [][\A d, s \in Slots :
          (d # s /\ Holds(s) /\ (MoveConstruct(d, s) \/ MoveAssign(d, s))) =>
             Transferred(d, s)]_vars

\* A move between two objects has just happened: the source is alive and
\* empty, the destination holds a holder.
C4_Witness ==
    /\ last.op \in {"MoveConstruct", "MoveAssign"} /\ ~last.self /\ ~crashed
    /\ \E d, s \in Slots :
          /\ d # s /\ alive[s] /\ pimpl_[s] = NULL /\ movedFrom[s]
          /\ Holds(d)
          /\ AliveSlots = {d, s}

\* Every live Shape that is not a moved-from source holds a valid holder.
NoAbsentHolder == \A s \in DOMAIN alive : (alive[s] /\ ~movedFrom[s]) => Valid(pimpl_[s])

\* A step that uses a moved-from Shape other than to destroy or reassign it.
UsesMovedFrom ==
    \E s \in Slots :
       /\ movedFrom[s]
       /\ \/ draw_Shape(s) \/ serialize_Shape(s) \/ stream_Shape(s)
          \/ \E d \in Slots : \/ CopyConstruct(d, s) \/ MoveConstruct(d, s)
                              \/ CopyAssign(d, s) \/ MoveAssign(d, s)

\* C5: as long as moved-from Shapes are only destroyed or reassigned, every
\* live Shape other than a moved-from source holds a valid holder, and no
\* operation dereferences an absent holder (the process is never killed).
C5_ValidHolderUnlessMovedFrom ==
    /\ NoAbsentHolder
    /\ [][(NoAbsentHolder /\ ~crashed /\ ~UsesMovedFrom) =>
             (NoAbsentHolder' /\ ~crashed')]_vars

\* A moved-from Shape exists next to a Shape that holds a holder.
C5_Witness ==
    /\ NoAbsentHolder /\ ~crashed
    /\ \E s \in Slots : alive[s] /\ movedFrom[s] /\ pimpl_[s] = NULL
    /\ \E d \in Slots : Holds(d) /\ last.op \in {"draw", "serialize", "operator<<"}

\* C6: every allocated holder has exactly one owning live Shape (none is
\* shared, none is leaked), no live Shape points at a released holder, and
\* no holder is released twice.
C6_ExclusiveOwnership ==
    /\ \A h \in DOMAIN heap : heap[h] # Free => Cardinality(Owners(h)) = 1
    /\ \A s \in DOMAIN alive : (alive[s] /\ pimpl_[s] # NULL) => heap[pimpl_[s]] # Free
    /\ \A s \in DOMAIN alive : ~alive[s] => pimpl_[s] = NULL
    /\ ~badFree

\* All Shapes are alive with holders of their own, right after a copy
\* assignment replaced (and released) one of them.
C6_Witness ==
    /\ last.op = "CopyAssign" /\ ~last.self /\ ~crashed
    /\ \A s \in Slots : Holds(s)
    /\ Cardinality(Allocated) = Cardinality(Slots)

\* C9: every Shape owns a holder equal to the one the constructor at the
\* start of its lineage installed (same model variant, value and override);
\* draw on a Shape of an override-constructed lineage writes the override's
\* output, not the default draw's.
C9_DuplicationPreservesHolder ==
    \A s \in DOMAIN alive :
       alive[s] =>
          IF pimpl_[s] = NULL
          THEN origin[s] = Free
          ELSE /\ Valid(pimpl_[s])
               /\ heap[pimpl_[s]] = origin[s]
               /\ origin[s].model = "ExtendedModel" =>
                     /\ draw(heap[pimpl_[s]]) = ApplyDrawer(origin[s].drawer_, origin[s].shape_)
                     /\ draw(heap[pimpl_[s]]) # draw_free(origin[s].shape_)

\* An override-constructed Shape has just been copied: both the original
\* and the copy are backed by an ExtendedModel, in holders of their own.
C9_Witness ==
    /\ last.op \in {"CopyConstruct", "CopyAssign"} /\ ~last.self /\ ~crashed
    /\ \E a, b \in Slots :
          /\ a # b /\ AliveSlots = {a, b}
          /\ Holds(a) /\ Holds(b) /\ pimpl_[a] # pimpl_[b]
          /\ heap[pimpl_[a]].model = "ExtendedModel"
          /\ heap[pimpl_[b]] = heap[pimpl_[a]]

\* C10: copy- or move-assigning a Shape that holds a holder to itself leaves
\* it holding a valid holder with the same content and output; nothing is
\* leaked, released twice or read after release.
C10_SelfAssignmentSafe ==
    [][\A s \in Slots :
          (Holds(s) /\ (CopyAssign(s, s) \/ MoveAssign(s, s))) =>
             /\ Holds(s)'
             /\ heap'[pimpl_'[s]] = heap[pimpl_[s]]
             /\ Obs(s)' = Obs(s)
             /\ Cardinality(Allocated') = Cardinality(Allocated)
             /\ \A h \in Allocated' : Cardinality(Owners(h)') = 1
             /\ ~badFree' /\ ~crashed']_vars

\* A Shape has just been move-assigned to itself and still holds a holder.
C10_Witness ==
    /\ last = Op("MoveAssign", 1, 1) /\ ~crashed
    /\ AliveSlots # {}
    /\ \A s \in AliveSlots : Holds(s)

(***************************************************************************)
(* Specification SpecMain: main() of main.cpp.  The elements of the        *)
(* std::vector<Shape> are Shape objects in storage cells; emplace_back     *)
(* into full storage allocates larger storage (by an implementation-       *)
(* defined factor), constructs the new element there, copy-constructs the  *)
(* old elements across (Shape's move constructor is not noexcept, so       *)
(* std::move_if_noexcept copies) and destroys the old ones.                *)
(***************************************************************************)
MainCells == 6
MainHolders == 5
MaxCapacity == 4
Cells == 1..MainCells
MainHolderIds == 1..MainHolders

Range(q) == {q[i] : i \in 1..Len(q)}
IsPrefix(p, q) == Len(p) <= Len(q) /\ p = SubSeq(q, 1, Len(p))

\* The three emplace_back statements.
Elements ==
    << [ctor |-> "value", shape |-> Circle(20), drawer |-> "none"],
       [ctor |-> "value", shape |-> Square(15), drawer |-> "none"],
       [ctor |-> "override", shape |-> Circle(42), drawer |-> "lambda"] >>

\* emplace_back forwards its arguments to the matching Shape constructor.
Emplace(cell, e) ==
    IF e.ctor = "value"
    THEN Construct(cell, e.shape)
    ELSE ConstructExt(cell, e.shape, e.drawer)

\* Storage of n cells: the n lowest cells outside the current storage.
RECURSIVE LeastCells(_, _)
LeastCells(n, S) ==
    IF n = 0 THEN <<>>
    ELSE LET c == CHOOSE x \in S : \A y \in S : x <= y
         IN  <<c>> \o LeastCells(n - 1, S \ {c})

\* The capacities a full vector of capacity cap may grow to; the factor is
\* the library's choice.
Growth(cap) == (cap + 1)..MaxCapacity

NextStatement(k) ==
    IF k < Len(Elements)
    THEN [at |-> "emplace", i |-> k + 1]
    ELSE [at |-> "draw_header", i |-> 0]

\* shapes.emplace_back(...) with spare capacity.
EmplaceBack ==
    /\ pc.at = "emplace" /\ shapes.size < Len(shapes.buf)
    /\ Emplace(shapes.buf[shapes.size + 1], Elements[pc.i])
    /\ shapes' = [shapes EXCEPT !.size = @ + 1]
    /\ pc' = NextStatement(pc.i)
    /\ console' = console

\* shapes.emplace_back(...) into full storage: new storage, new element first.
EmplaceBackGrow ==
    /\ pc.at = "emplace" /\ shapes.size = Len(shapes.buf)
    /\ \E cap \in Growth(Len(shapes.buf)) :
          /\ Cardinality(Cells \ Range(shapes.buf)) >= cap
          /\ LET nb == LeastCells(cap, Cells \ Range(shapes.buf))
             IN  /\ Emplace(nb[shapes.size + 1], Elements[pc.i])
                 /\ IF shapes.size = 0
                    THEN /\ shapes' = [buf |-> nb, size |-> 1, newbuf |-> <<>>]
                         /\ pc' = NextStatement(pc.i)
                    ELSE /\ shapes' = [shapes EXCEPT !.newbuf = nb]
                         /\ pc' = [at |-> "relocate", i |-> 1]
    /\ console' = console

\* Faulty variant: growth that copies the Shape objects bytewise.
Relocate_bitwise ==
    /\ pc.at = "relocate"
    /\ CopyConstruct_shallow(shapes.newbuf[pc.i], shapes.buf[pc.i])
    /\ pc' = IF pc.i = shapes.size
             THEN [at |-> "destroy_old", i |-> 1]
             ELSE [pc EXCEPT !.i = @ + 1]
    /\ UNCHANGED <<shapes, console>>

\* Growth: the next old element is copy-constructed into the new storage.
Relocate ==
    /\ pc.at = "relocate"
    /\ CopyConstruct(shapes.newbuf[pc.i], shapes.buf[pc.i])
    /\ pc' = IF pc.i = shapes.size
             THEN [at |-> "destroy_old", i |-> 1]
             ELSE [pc EXCEPT !.i = @ + 1]
    /\ UNCHANGED <<shapes, console>>

\* Growth: the next old element is destroyed; after the last one the vector
\* adopts the new storage.
DestroyOld ==
    /\ pc.at = "destroy_old"
    /\ Destroy(shapes.buf[pc.i])
    /\ IF pc.i = shapes.size
       THEN /\ shapes' = [buf |-> shapes.newbuf, size |-> shapes.size + 1,
                          newbuf |-> <<>>]
            /\ pc' = NextStatement(shapes.size + 1)
       ELSE /\ shapes' = shapes
            /\ pc' = [pc EXCEPT !.i = @ + 1]
    /\ console' = console

\* std::cout << text
Write(text) ==
    /\ ~crashed
    /\ out' = Text(text)
    /\ console' = console \o out'
    /\ UNCHANGED <<alive, pimpl_, heap, crashed, last, origin, movedFrom, badFree, shapes>>

DrawHeader ==
    /\ pc.at = "draw_header"
    /\ Write("\nDrawing all shapes:\n")
    /\ pc' = [at |-> "draw", i |-> 1]

\* std::for_each(shapes.begin(), shapes.end(), ... draw(shape) ...)
DrawNext ==
    /\ pc.at = "draw"
    /\ draw_Shape(shapes.buf[pc.i])
    /\ console' = console \o out'
    /\ pc' = IF pc.i = shapes.size
             THEN [at |-> "serialize_header", i |-> 0]
             ELSE [pc EXCEPT !.i = @ + 1]
    /\ shapes' = shapes

SerializeHeader ==
    /\ pc.at = "serialize_header"
    /\ Write("\nSerializing all shapes:\n")
    /\ pc' = [at |-> "serialize", i |-> 1]

\* std::for_each(shapes.begin(), shapes.end(), ... serialize(shape) ...)
SerializeNext ==
    /\ pc.at = "serialize"
    /\ serialize_Shape(shapes.buf[pc.i])
    /\ console' = console \o out'
    /\ pc' = IF pc.i = shapes.size
             THEN [at |-> "return", i |-> 1]
             ELSE [pc EXCEPT !.i = @ + 1]
    /\ shapes' = shapes

\* main() returns: the vector destroys its elements.
Return ==
    /\ pc.at = "return"
    /\ Destroy(shapes.buf[pc.i])
    /\ pc' = IF pc.i = shapes.size
             THEN [at |-> "done", i |-> 0]
             ELSE [pc EXCEPT !.i = @ + 1]
    /\ UNCHANGED <<shapes, console>>

MainInit ==
    /\ ShapeInit(Cells, MainHolderIds)
    /\ pc = [at |-> "emplace", i |-> 1]
    /\ shapes = EmptyVector
    /\ console = <<>>
    /\ BuildIdle

MainNext ==
    \/ EmplaceBack /\ UNCHANGED buildVars
    \/ EmplaceBackGrow /\ UNCHANGED buildVars
    \/ Relocate /\ UNCHANGED buildVars
    \/ DestroyOld /\ UNCHANGED buildVars
    \/ DrawHeader /\ UNCHANGED buildVars
    \/ DrawNext /\ UNCHANGED buildVars
    \/ SerializeHeader /\ UNCHANGED buildVars
    \/ SerializeNext /\ UNCHANGED buildVars
    \/ Return /\ UNCHANGED buildVars

SpecMain == MainInit /\ [][MainNext]_vars

ElementHolder(e) ==
    IF e.ctor = "value" THEN ShapeModel(e.shape) ELSE ExtendedModel(e.shape, e.drawer)

ExpectedConsole ==
    Text("\nDrawing all shapes:\n")
        \o draw_free(Circle(20)) \o draw_free(Square(15)) \o lambda(Circle(42))
        \o Text("\nSerializing all shapes:\n")
        \o serialize_free(Circle(20)) \o serialize_free(Square(15))
        \o serialize_free(Circle(42))

\* C7: main() writes the draw header, one draw output per element in
\* sequence order (Circle 2.0, Square 1.5, then the lambda's output for
\* Circle 4.2), the serialize header, and one serialize output per element
\* in the same order; while the vector is built, and through its growth,
\* element i is backed by the holder its emplace_back installed.
C7_DriverOutput ==
    /\ ~crashed
    /\ IsPrefix(console, ExpectedConsole)
    /\ pc.at \in {"return", "done"} => console = ExpectedConsole
    /\ pc.at \in {"emplace", "relocate", "draw_header", "draw",
                  "serialize_header", "serialize"} =>
          \A i \in 1..shapes.size :
             Holds(shapes.buf[i]) /\ heap[pimpl_[shapes.buf[i]]] = ElementHolder(Elements[i])
    /\ pc.at = "destroy_old" =>
          \A i \in 1..(shapes.size + 1) :
             Holds(shapes.newbuf[i])
                /\ heap[pimpl_[shapes.newbuf[i]]] = ElementHolder(Elements[i])

\* main() has returned after the vector grew to capacities 1, 2 and 4, the
\* last two times with elements in it (the storage cells show the history).
C7_Witness ==
    /\ pc.at = "done"
    /\ console = ExpectedConsole
    /\ shapes.buf = <<1, 4, 5, 6>>
    /\ Allocated = {}


(***************************************************************************)
(* Specification SpecBuild: what the build does with a program that wraps  *)
(* values of arbitrary types.  Each wrap site goes through overload        *)
(* resolution of Shape's constructors, then the instantiation of the model *)
(* class the chosen constructor names; the translation unit is then        *)
(* linked.  The build stops at its first error.                            *)
(***************************************************************************)
MaxSites == 2

\* Shape s{t} or Shape s{t, drawer}; callable: drawer(t) is well-formed.
WrapSites ==
    {[ctor |-> "value", T |-> ty, callable |-> FALSE] : ty \in Types}
        \cup {[ctor |-> "override", T |-> ty, callable |-> c] :
                 ty \in Types, c \in BOOLEAN}

Programs == UNION {[1..n -> WrapSites] : n \in 1..MaxSites}

\* template <IsShape T> Shape(const T&) is viable only if IsShape<T> holds;
\* template <typename ShapeT, typename DrawStrategy> Shape(ShapeT, DrawStrategy)
\* is unconstrained.
Viable(w) == w.ctor = "override" \/ IsShape(w.T)

\* The virtual members of the instantiated model must compile:
\* print: os << object_, and for ExtendedModel draw: drawer_(shape_).
BodyCompiles(w) == w.T.streamOut /\ (w.ctor = "override" => w.callable)

\* The free functions the model's members call, after overload resolution.
Calls(w) ==
    IF w.ctor = "value"
    THEN {Resolve(w.T.ownSerialize), Resolve(w.T.ownDraw)}
    ELSE {Resolve(w.T.ownSerialize)}

\* The primary templates are declared and never defined.
Undefined(w) == "primary" \in Calls(w)

\* Overload resolution at the wrap site.
ResolveConstructor ==
    /\ stage = "resolve"
    /\ IF Viable(prog[site])
       THEN stage' = "instantiate" /\ diag' = diag
       ELSE stage' = "failed" /\ diag' = "constructor"
    /\ UNCHANGED <<prog, site>>

\* Instantiation of ShapeModel<T> / ExtendedModel<ShapeT, DrawStrategy>.
InstantiateModel ==
    /\ stage = "instantiate"
    /\ IF ~BodyCompiles(prog[site])
       THEN stage' = "failed" /\ diag' = "body" /\ site' = site
       ELSE IF site < Len(prog)
            THEN stage' = "resolve" /\ site' = site + 1 /\ diag' = diag
            ELSE stage' = "link" /\ site' = site /\ diag' = diag
    /\ prog' = prog

\* The linker resolves the calls the emitted virtual members make.
Link ==
    /\ stage = "link"
    /\ IF \E k \in 1..Len(prog) : Undefined(prog[k])
       THEN stage' = "failed" /\ diag' = "linker"
       ELSE stage' = "linked" /\ diag' = diag
    /\ UNCHANGED <<prog, site>>

BuildInit ==
    /\ ShapeInit(Slots, HolderIds)
    /\ MainIdle
    /\ prog \in Programs
    /\ site = 1
    /\ stage = "resolve"
    /\ diag = "none"

BuildNext ==
    \/ ResolveConstructor /\ UNCHANGED <<shapeVars, mainVars>>
    \/ InstantiateModel /\ UNCHANGED <<shapeVars, mainVars>>
    \/ Link /\ UNCHANGED <<shapeVars, mainVars>>

SpecBuild == BuildInit /\ [][BuildNext]_vars

\* Wrap site k has been accepted by a constructor of Shape.
Accepted(k) ==
    \/ k < site
    \/ k = site /\ stage \in {"instantiate", "link", "linked"}
    \/ k = site /\ stage = "failed" /\ diag # "constructor"

\* C8: a type that does not supply a required capability is rejected at the
\* point the value is wrapped: every failed build failed in the constructor's
\* overload resolution at the wrap site; the single-argument constructor
\* accepts a type only if it supplies its own serialize, its own draw and
\* stream output, the value-plus-override constructor only if it supplies
\* its own serialize and stream output; and no program is built in which a
\* Shape wraps a type lacking an implementation for a later call.
C8_RejectedAtWrapPoint ==
    LET Supplies(w) ==
            IF w.ctor = "value"
            THEN w.T.ownSerialize /\ w.T.ownDraw /\ w.T.streamOut
            ELSE w.T.ownSerialize /\ w.T.streamOut
    IN  /\ stage = "failed" => diag = "constructor"
        /\ \A k \in 1..Len(prog) : Accepted(k) => Supplies(prog[k])
        /\ stage = "linked" =>
              \A k \in 1..Len(prog) : Supplies(prog[k]) /\ BodyCompiles(prog[k])

====
